---- MODULE Spec2Model ----
(***************************************************************************)
(* Model of the sali-bot Super Bowl core: the drift guard                  *)
(* (scripts/guard-superbowl-strings.js and its rg-based shell twin), the   *)
(* event configuration (src/config/superbowl.ts), the name normalisers     *)
(* (src/utils/normalizeTeam.ts) and the formatters (src/utils/format*.ts). *)
(*                                                                         *)
(* A JavaScript string is modelled as a sequence of one-character strings, *)
(* so that trimming, splitting, case folding and pattern matching are      *)
(* computed character by character.                                        *)
(***************************************************************************)
EXTENDS Integers, Sequences, FiniteSets, Bags, TLC

(***************************************************************************)
(* Bounds of the model                                                     *)
(***************************************************************************)
\* entries below the root of a scanned directory tree
MaxNodes == 3
\* extra whitespace characters put around / inside a candidate team name
MaxPad == 2

(***************************************************************************)
(* Text primitives (ECMAScript String / RegExp semantics, ASCII)           *)
(***************************************************************************)
UpperLetters ==
  <<"A","B","C","D","E","F","G","H","I","J","K","L","M",
    "N","O","P","Q","R","S","T","U","V","W","X","Y","Z">>

LowerLetters ==
  <<"a","b","c","d","e","f","g","h","i","j","k","l","m",
    "n","o","p","q","r","s","t","u","v","w","x","y","z">>

Digits == <<"0","1","2","3","4","5","6","7","8","9">>

\* \w of a RegExp without the u flag: [A-Za-z0-9_]
WordChars ==
  {UpperLetters[i] : i \in 1..26} \cup {LowerLetters[i] : i \in 1..26}
    \cup {Digits[i] : i \in 1..10} \cup {"_"}

\* \s, and the characters String.prototype.trim strips
WhiteSpace == {" ", "\t", "\n", "\r", "\f"}

ToLowerChar(c) ==
  IF \E i \in 1..26 : UpperLetters[i] = c
    THEN LowerLetters[CHOOSE i \in 1..26 : UpperLetters[i] = c]
    ELSE c

toLowerCase(s) == [i \in 1..Len(s) |-> ToLowerChar(s[i])]

RECURSIVE trimStart(_)
trimStart(s) ==
  IF s # <<>> /\ Head(s) \in WhiteSpace THEN trimStart(Tail(s)) ELSE s

RECURSIVE trimEnd(_)
trimEnd(s) ==
  IF s # <<>> /\ s[Len(s)] \in WhiteSpace
    THEN trimEnd(SubSeq(s, 1, Len(s) - 1))
    ELSE s

trim(s) == trimEnd(trimStart(s))

startsWith(s, p) == Len(p) <= Len(s) /\ SubSeq(s, 1, Len(p)) = p

\* content.replace(/\r\n/g, "\n")
RECURSIVE ReplaceCRLF(_)
ReplaceCRLF(s) ==
  IF s = <<>> THEN <<>>
  ELSE IF Len(s) >= 2 /\ s[1] = "\r" /\ s[2] = "\n"
    THEN <<"\n">> \o ReplaceCRLF(SubSeq(s, 3, Len(s)))
    ELSE <<Head(s)>> \o ReplaceCRLF(Tail(s))

\* rel.replace(/\\/g, "/")
ReplaceBackslash(s) == [i \in 1..Len(s) |-> IF s[i] = "\\" THEN "/" ELSE s[i]]

\* content.split("\n")
RECURSIVE SplitLines(_)
SplitLines(s) ==
  IF \E i \in 1..Len(s) : s[i] = "\n"
    THEN LET i == CHOOSE j \in 1..Len(s) :
                    s[j] = "\n" /\ \A k \in 1..(j - 1) : s[k] # "\n"
         IN <<SubSeq(s, 1, i - 1)>> \o SplitLines(SubSeq(s, i + 1, Len(s)))
    ELSE <<s>>

\* `${n}` for a natural number n
RECURSIVE Decimal(_)
Decimal(n) ==
  IF n < 10 THEN <<Digits[n + 1]>>
  ELSE Decimal(n \div 10) \o <<Digits[(n % 10) + 1]>>

\* \b at the gap before position i of s (i in 1..Len(s)+1)
IsWordAt(s, i) == i >= 1 /\ i <= Len(s) /\ s[i] \in WordChars

WordBoundary(s, i) == IsWordAt(s, i - 1) # IsWordAt(s, i)

(***************************************************************************)
(* scripts/guard-superbowl-strings.js: constants                           *)
(***************************************************************************)
\* /Kansas City Chiefs|San Francisco 49ers|\bChiefs\b|\b49ers\b|superbowlTeams/
BAD_PATTERN ==
  << [lit |-> <<"K","a","n","s","a","s"," ","C","i","t","y"," ","C","h","i","e","f","s">>,
      wb |-> FALSE],
     [lit |-> <<"S","a","n"," ","F","r","a","n","c","i","s","c","o"," ","4","9","e","r","s">>,
      wb |-> FALSE],
     [lit |-> <<"C","h","i","e","f","s">>, wb |-> TRUE],
     [lit |-> <<"4","9","e","r","s">>, wb |-> TRUE],
     [lit |-> <<"s","u","p","e","r","b","o","w","l","T","e","a","m","s">>, wb |-> FALSE] >>

\* variant of AltMatchesAt: the \b assertions of an alternative are dropped
AltMatchesAt_NoBoundary(alt, line, i) ==
  /\ i + Len(alt.lit) - 1 <= Len(line)
  /\ SubSeq(line, i, i + Len(alt.lit) - 1) = alt.lit

\* one alternative of the pattern matched at position i of line
AltMatchesAt(alt, line, i) ==
  /\ i + Len(alt.lit) - 1 <= Len(line)
  /\ SubSeq(line, i, i + Len(alt.lit) - 1) = alt.lit
  /\ alt.wb => (WordBoundary(line, i) /\ WordBoundary(line, i + Len(alt.lit)))

\* BAD_PATTERN.test(line)
BadPatternTest(line) ==
  \E k \in 1..Len(BAD_PATTERN) : \E i \in 1..Len(line) :
    AltMatchesAt(BAD_PATTERN[k], line, i)

IGNORE ==
  { <<"n","o","d","e","_","m","o","d","u","l","e","s">>,
    <<".","g","i","t">>,
    <<"_","_","p","y","c","a","c","h","e","_","_">>,
    <<"k","a","l","s","h","i","_","s","i","g","n","a","l","s",".","d","b">>,
    <<"w","a","t","c","h","l","i","s","t",".","j","s","o","n">>,
    <<"p","a","c","k","a","g","e","-","l","o","c","k",".","j","s","o","n">> }

TEXT_EXTENSIONS ==
  { <<".","t","s">>, <<".","t","s","x">>, <<".","j","s">>, <<".","j","s","x">>,
    <<".","j","s","o","n">>, <<".","m","d">>, <<".","p","y">>, <<".","s","h">>,
    <<".","e","n","v",".","e","x","a","m","p","l","e">> }

\* "scripts/guard-superbowl-strings"
SELF_PREFIX ==
  <<"s","c","r","i","p","t","s","/","g","u","a","r","d","-","s","u","p","e","r",
    "b","o","w","l","-","s","t","r","i","n","g","s">>

\* path.extname of a file name (the last portion of the path): the part from
\* the last dot on, empty when there is no dot, when the only dot leads the
\* name, or when the name is ".."
LastDot(b) ==
  IF \E i \in 1..Len(b) : b[i] = "."
    THEN CHOOSE i \in 1..Len(b) : b[i] = "." /\ \A j \in (i + 1)..Len(b) : b[j] # "."
    ELSE 0

extname(b) ==
  LET startDot == LastDot(b)
      preDotState == IF startDot <= 1 THEN 0 ELSE IF b[1] = "." THEN 1 ELSE -1
  IN IF \/ startDot = 0
        \/ preDotState = 0
        \/ (preDotState = 1 /\ startDot = Len(b) /\ startDot = 2)
       THEN <<>>
       ELSE SubSeq(b, startDot, Len(b))

\* const isText = [...].includes(ext) || !ext, with ext = extname.toLowerCase()
isText(name) ==
  LET ext == toLowerCase(extname(name))
  IN ext \in TEXT_EXTENSIONS \/ ext = <<>>

(***************************************************************************)
(* State                                                                   *)
(***************************************************************************)
VARIABLES
  \* --- the drift guard ---
  tree,       \* the directory tree under ROOT: entry i is tree[i], entry 0 is ROOT
  rootState,  \* "ok", "missing" or "unreadable": what the file system says of ROOT
  pc,         \* position of the script: "start", "walk", "report", "exit", "off"
  stack,      \* active walk(dir, cb) calls, innermost last: [dir, todo]
  hits,       \* const hits = []
  found,      \* the (file, line) pairs behind hits (history variable)
  opened,     \* files handed to fs.readFileSync (history variable)
  listed,     \* directories handed to fs.readdirSync (history variable)
  out,        \* lines written to standard output
  err,        \* lines written to standard error
  exitCode,   \* process exit code, -1 while running
  \* --- configuration, normalisers and formatters ---
  cfg,        \* the value of the SUPERBOWL constant once the module is evaluated
  loaded,     \* whether src/config/superbowl.ts has been evaluated
  call        \* the last call made by a consumer: [fn, arg, result]

guardVars ==
  <<tree, rootState, pc, stack, hits, found, opened, listed, out, err, exitCode>>

cfgVars == <<cfg, loaded, call>>

vars == <<guardVars, cfgVars>>

(***************************************************************************)
(* Directory trees                                                         *)
(***************************************************************************)
\* "Chiefs win\r\nok\n\t go 49ers  \n"
ContentHits ==
  <<"C","h","i","e","f","s"," ","w","i","n","\r","\n","o","k","\n",
    "\t"," ","g","o"," ","4","9","e","r","s"," "," ","\n">>

\* "xChiefs\nChiefsx x49ers 49ersy\nchiefs superbowlteams\nKansas city Chiefs_"
ContentInWord ==
  <<"x","C","h","i","e","f","s","\n",
    "C","h","i","e","f","s","x"," ","x","4","9","e","r","s"," ","4","9","e","r","s","y","\n",
    "c","h","i","e","f","s"," ","s","u","p","e","r","b","o","w","l","t","e","a","m","s","\n",
    "K","a","n","s","a","s"," ","c","i","t","y"," ","C","h","i","e","f","s","_">>

\* "Chiefs 49ers Chiefs\nKansas City Chiefsx\n"
ContentMulti ==
  <<"C","h","i","e","f","s"," ","4","9","e","r","s"," ","C","h","i","e","f","s","\n",
    "K","a","n","s","a","s"," ","C","i","t","y"," ","C","h","i","e","f","s","x","\n">>

\* "superbowlTeamsOld\r\n\r\nSan Francisco 49ers"
ContentSymbol ==
  <<"s","u","p","e","r","b","o","w","l","T","e","a","m","s","O","l","d","\r","\n","\r","\n",
    "S","a","n"," ","F","r","a","n","c","i","s","c","o"," ","4","9","e","r","s">>

File(n, c, r) == [name |-> n, kind |-> "file", content |-> c, readable |-> r]

Dir(n, r) == [name |-> n, kind |-> "dir", content |-> <<>>, readable |-> r]

\* the directory entries a tree is built from
EntrySamples ==
  << File(<<"a",".","t","s">>, ContentHits, TRUE),
     File(<<"R","E","A","D","M","E">>, ContentInWord, TRUE),
     File(<<"B",".","T","S">>, ContentMulti, TRUE),
     File(<<"i","m","g",".","p","n","g">>, ContentHits, FALSE),
     File(<<".","e","n","v",".","e","x","a","m","p","l","e">>, ContentSymbol, TRUE),
     File(<<"w","a","t","c","h","l","i","s","t",".","j","s","o","n">>, ContentHits, TRUE),
     File(<<"g","u","a","r","d","-","s","u","p","e","r","b","o","w","l","-",
            "s","t","r","i","n","g","s",".","j","s">>, ContentSymbol, TRUE),
     File(<<"n","o","t","e","s",".","m","d">>, ContentHits, FALSE),
     Dir(<<"s","c","r","i","p","t","s">>, TRUE),
     Dir(<<"n","o","d","e","_","m","o","d","u","l","e","s">>, TRUE),
     Dir(<<"l","o","c","k","e","d">>, FALSE),
     [name |-> <<"l","i","n","k">>, kind |-> "other", content |-> <<>>,
      readable |-> TRUE] >>

\* a tree is a sequence of [entry, parent]: entry i is EntrySamples[t[i].entry]
\* and lies in directory t[i].parent, 0 being ROOT
EntryOf(t, i) == EntrySamples[t[i].entry]

\* the chain of directories above entry i, ROOT (0) included
RECURSIVE Ancestors(_, _)
Ancestors(t, i) ==
  IF i = 0 THEN {} ELSE {t[i].parent} \cup Ancestors(t, t[i].parent)

\* entries are numbered in the order a depth-first traversal lists them, so
\* the last entry hangs under the entry before it or one of its ancestors;
\* a directory holds no two entries of one name
LastFits(t) ==
  LET n == Len(t)
      p == t[n].parent
  IN /\ p \in {n - 1} \cup Ancestors(t, n - 1)
     /\ p = 0 \/ EntryOf(t, p).kind = "dir"
     /\ \A i \in 1..(n - 1) :
          t[i].parent = p => EntryOf(t, i).name # EntryOf(t, n).name

RECURSIVE TreesOfSize(_)
TreesOfSize(n) ==
  IF n = 0 THEN {<<>>}
  ELSE {u \in {Append(t, x) : t \in TreesOfSize(n - 1),
                              x \in [entry : 1..Len(EntrySamples), parent : 0..(n - 1)]} :
          LastFits(u)}

\* fs.readdirSync(dir): the entries of directory d, in listing order
Children(t, d) ==
  SelectSeq([i \in 1..Len(t) |-> i], LAMBDA i : t[i].parent = d)

\* path.relative(ROOT, file)
RECURSIVE RelPath(_, _)
RelPath(t, i) ==
  IF t[i].parent = 0 THEN EntryOf(t, i).name
  ELSE RelPath(t, t[i].parent) \o <<"/">> \o EntryOf(t, i).name

\* variant of DirExists: walk without its existsSync test
DirExists_Always(d) == TRUE

\* fs.existsSync(dir): ROOT may be missing; a directory that readdirSync has
\* just listed exists.  fs.readdirSync(dir) succeeds on a readable directory.
DirExists(d) == d = 0 => rootState # "missing"

DirReadable(d) == IF d = 0 THEN rootState = "ok" ELSE EntryOf(tree, d).readable

(***************************************************************************)
(* scripts/guard-superbowl-strings.js: the run                             *)
(***************************************************************************)
Top == stack[Len(stack)]

\* the for-loop of the innermost walk moves on to its next entry
Advanced == [stack EXCEPT ![Len(stack)].todo = Tail(@)]

\* variant of IsIgnored: the ignore set applied to directories only
IsIgnored_DirsOnly(i) ==
  EntryOf(tree, i).kind = "dir" /\ EntryOf(tree, i).name \in IGNORE

IsIgnored(i) == EntryOf(tree, i).name \in IGNORE

\* rel.replace(/\\/g, "/").startsWith("scripts/guard-superbowl-strings")
IsSelf(i) == startsWith(ReplaceBackslash(RelPath(tree, i)), SELF_PREFIX)

\* content.replace(/\r\n/g, "\n").split("\n")
FileLines(i) == SplitLines(ReplaceCRLF(EntryOf(tree, i).content))

\* the 1-based numbers of the lines of file i the pattern matches, ascending
MatchingLines(i) ==
  LET lines == FileLines(i)
  IN SelectSeq([k \in 1..Len(lines) |-> k], LAMBDA k : BadPatternTest(lines[k]))

\* `${rel}:${i + 1}:${line.trim()}`
FormatHit(rel, lineNo, line) ==
  rel \o <<":">> \o Decimal(lineNo) \o <<":">> \o trim(line)

\* what lines.forEach pushes for file i
NewHits(i) ==
  LET lines == FileLines(i)
      m == MatchingLines(i)
  IN [j \in 1..Len(m) |-> FormatHit(RelPath(tree, i), m[j], lines[m[j]])]

\* an exception nobody catches: the runtime prints it on standard error and
\* the process ends with exit code 1
Throw ==
  /\ pc' = "exit"
  /\ stack' = <<>>
  /\ exitCode' = 1
  /\ err' = Append(err, [kind |-> "uncaught", text |-> <<>>])

\* walk(dir, cb) up to the start of its loop, called with `base` as the
\* calls that stay active
WalkCall(d, base) ==
  IF ~DirExists(d)
    THEN /\ stack' = base
         /\ pc' = IF base = <<>> THEN "report" ELSE "walk"
         /\ UNCHANGED <<listed, err, exitCode>>
  ELSE IF ~DirReadable(d)
    THEN /\ listed' = listed \cup {d}
         /\ Throw
  ELSE /\ listed' = listed \cup {d}
       /\ stack' = Append(base, [dir |-> d, todo |-> Children(tree, d)])
       /\ pc' = "walk"
       /\ UNCHANGED <<err, exitCode>>

\* walk(ROOT, ...)
Start ==
  /\ pc = "start"
  /\ WalkCall(0, <<>>)
  /\ UNCHANGED <<tree, rootState, hits, found, opened, out, cfgVars>>

\* if (IGNORE.has(e.name)) continue;
SkipIgnored ==
  /\ pc = "walk" /\ Top.todo # <<>>
  /\ IsIgnored(Head(Top.todo))
  /\ stack' = Advanced
  /\ UNCHANGED <<tree, rootState, pc, hits, found, opened, listed, out, err,
                 exitCode, cfgVars>>

\* if (e.isDirectory()) walk(full, cb);
EnterDirectory ==
  /\ pc = "walk" /\ Top.todo # <<>>
  /\ ~IsIgnored(Head(Top.todo))
  /\ EntryOf(tree, Head(Top.todo)).kind = "dir"
  /\ WalkCall(Head(Top.todo), Advanced)
  /\ UNCHANGED <<tree, rootState, hits, found, opened, out, cfgVars>>

\* variant of ScanFile: a file that cannot be read is skipped (the read
\* wrapped in a try/catch that moves on)
ScanFile_SkipUnreadable ==
  /\ pc = "walk" /\ Top.todo # <<>>
  /\ ~IsIgnored(Head(Top.todo))
  /\ EntryOf(tree, Head(Top.todo)).kind = "file"
  /\ LET f == Head(Top.todo)
     IN IF IsSelf(f) \/ ~isText(EntryOf(tree, f).name)
          THEN /\ stack' = Advanced
               /\ UNCHANGED <<pc, hits, found, opened, err, exitCode>>
        ELSE IF ~EntryOf(tree, f).readable
          THEN /\ opened' = opened \cup {f}
               /\ stack' = Advanced
               /\ UNCHANGED <<pc, hits, found, err, exitCode>>
        ELSE /\ opened' = opened \cup {f}
             /\ hits' = hits \o NewHits(f)
             /\ found' = found \cup {<<f, MatchingLines(f)[j]>> :
                                       j \in 1..Len(MatchingLines(f))}
             /\ stack' = Advanced
             /\ UNCHANGED <<pc, err, exitCode>>
  /\ UNCHANGED <<tree, rootState, listed, out, cfgVars>>

\* else if (e.isFile()) cb(full);
ScanFile ==
  /\ pc = "walk" /\ Top.todo # <<>>
  /\ ~IsIgnored(Head(Top.todo))
  /\ EntryOf(tree, Head(Top.todo)).kind = "file"
  /\ LET f == Head(Top.todo)
     IN IF IsSelf(f) \/ ~isText(EntryOf(tree, f).name)
          THEN /\ stack' = Advanced
               /\ UNCHANGED <<pc, hits, found, opened, err, exitCode>>
        ELSE IF ~EntryOf(tree, f).readable
          THEN /\ opened' = opened \cup {f}
               /\ Throw
               /\ UNCHANGED <<hits, found>>
        ELSE /\ opened' = opened \cup {f}
             /\ hits' = hits \o NewHits(f)
             /\ found' = found \cup {<<f, MatchingLines(f)[j]>> :
                                       j \in 1..Len(MatchingLines(f))}
             /\ stack' = Advanced
             /\ UNCHANGED <<pc, err, exitCode>>
  /\ UNCHANGED <<tree, rootState, listed, out, cfgVars>>

\* an entry that is neither a directory nor a regular file
SkipOther ==
  /\ pc = "walk" /\ Top.todo # <<>>
  /\ ~IsIgnored(Head(Top.todo))
  /\ EntryOf(tree, Head(Top.todo)).kind = "other"
  /\ stack' = Advanced
  /\ UNCHANGED <<tree, rootState, pc, hits, found, opened, listed, out, err,
                 exitCode, cfgVars>>

\* the loop of the innermost walk is over: the call returns
Return ==
  /\ pc = "walk" /\ Top.todo = <<>>
  /\ stack' = SubSeq(stack, 1, Len(stack) - 1)
  /\ pc' = IF Len(stack) = 1 THEN "report" ELSE "walk"
  /\ UNCHANGED <<tree, rootState, hits, found, opened, listed, out, err,
                 exitCode, cfgVars>>

\* variant of Report: process.exit(1) left out, so the script runs on to
\* the success line and ends with code 0
Report_FallThrough ==
  /\ pc = "report"
  /\ IF Len(hits) > 0
       THEN err' = err \o <<[kind |-> "banner", text |-> <<>>]>>
                       \o [j \in 1..Len(hits) |-> [kind |-> "hit", text |-> hits[j]]]
       ELSE UNCHANGED err
  /\ out' = Append(out, [kind |-> "success", text |-> <<>>])
  /\ exitCode' = 0
  /\ pc' = "exit"
  /\ UNCHANGED <<tree, rootState, stack, hits, found, opened, listed, cfgVars>>

\* if (hits.length > 0) { ... process.exit(1) } console.log(...)
Report ==
  /\ pc = "report"
  /\ IF Len(hits) > 0
       THEN /\ err' = err \o <<[kind |-> "banner", text |-> <<>>]>>
                          \o [j \in 1..Len(hits) |-> [kind |-> "hit", text |-> hits[j]]]
            /\ exitCode' = 1
            /\ UNCHANGED out
       ELSE /\ out' = Append(out, [kind |-> "success", text |-> <<>>])
            /\ exitCode' = 0
            /\ UNCHANGED err
  /\ pc' = "exit"
  /\ UNCHANGED <<tree, rootState, stack, hits, found, opened, listed, cfgVars>>

(***************************************************************************)
(* scripts/guard-superbowl-strings.sh: rg -n "<the same pattern>" .        *)
(* run from ROOT.  rg descends from the working directory, leaves out      *)
(* hidden entries (names starting with a dot) and what it cannot read,     *)
(* and knows nothing of IGNORE, of extensions or of the guard's own files. *)
(* The trees of the model hold no ignore file and no binary content.       *)
(***************************************************************************)
IsHidden(t, i) == startsWith(EntryOf(t, i).name, <<".">>)

\* the files rg searches
RgSearched(t) ==
  { i \in 1..Len(t) :
      /\ rootState = "ok"
      /\ EntryOf(t, i).kind = "file"
      /\ EntryOf(t, i).readable
      /\ ~IsHidden(t, i)
      /\ \A a \in Ancestors(t, i) \ {0} :
           EntryOf(t, a).readable /\ ~IsHidden(t, a) }

\* the (file, line) pairs rg prints: lines end at "\n", a "\r" before it
\* staying in the line
RgFindings(t) ==
  UNION { { <<i, k>> : k \in { n \in 1..Len(SplitLines(EntryOf(t, i).content)) :
                                 BadPatternTest(SplitLines(EntryOf(t, i).content)[n]) } } :
            i \in RgSearched(t) }

\* BAD=$(rg ... || true); exit 1 when BAD is not empty, else 0
ShExitCode(t) == IF RgFindings(t) # {} THEN 1 ELSE 0

(***************************************************************************)
(* src/config/superbowl.ts and src/utils/normalizeTeam.ts                  *)
(***************************************************************************)
\* variant of SUPERBOWL: the away team given the home team's abbreviation
SUPERBOWL_SharedAbbreviation ==
  [label |-> <<"S","u","p","e","r"," ","B","o","w","l">>,
   roman |-> <<"X","L","I","X">>,
   teams |->
     [home |-> [name |-> <<"N","e","w"," ","E","n","g","l","a","n","d"," ",
                          "P","a","t","r","i","o","t","s">>,
                city |-> <<"N","e","w"," ","E","n","g","l","a","n","d">>,
                abbreviation |-> <<"N","E">>,
                conference |-> "AFC"],
      away |-> [name |-> <<"S","e","a","t","t","l","e"," ",
                          "S","e","a","h","a","w","k","s">>,
                city |-> <<"S","e","a","t","t","l","e">>,
                abbreviation |-> <<"N","E">>,
                conference |-> "NFC"]]]

\* export const SUPERBOWL = { ... } as const, as shipped
SUPERBOWL ==
  [label |-> <<"S","u","p","e","r"," ","B","o","w","l">>,
   roman |-> <<"X","L","I","X">>,
   teams |->
     [home |-> [name |-> <<"N","e","w"," ","E","n","g","l","a","n","d"," ",
                          "P","a","t","r","i","o","t","s">>,
                city |-> <<"N","e","w"," ","E","n","g","l","a","n","d">>,
                abbreviation |-> <<"N","E">>,
                conference |-> "AFC"],
      away |-> [name |-> <<"S","e","a","t","t","l","e"," ",
                          "S","e","a","h","a","w","k","s">>,
                city |-> <<"S","e","a","t","t","l","e">>,
                abbreviation |-> <<"S","E","A">>,
                conference |-> "NFC"]]]

\* values of type { label, roman, teams: { home: Team, away: Team } } that an
\* edit of the literal can give it: no constructor stands between the
\* literal and its readers
Configs ==
  { SUPERBOWL,
    [SUPERBOWL EXCEPT !.teams.away.name = SUPERBOWL.teams.home.name],
    [SUPERBOWL EXCEPT !.teams.away.abbreviation = SUPERBOWL.teams.home.abbreviation],
    [SUPERBOWL EXCEPT !.teams.home.abbreviation = <<>>],
    [SUPERBOWL EXCEPT !.teams.away.name = <<>>],
    [SUPERBOWL EXCEPT !.teams.home.name = <<"D","a","l","l","a","s"," ",
                                            "C","o","w","b","o","y","s">>,
                      !.teams.home.city = <<"D","a","l","l","a","s">>,
                      !.teams.home.abbreviation = <<"D","A","L">>] }

\* export const SUPERBOWL_TEAM_NAMES = [home.name, away.name]
SUPERBOWL_TEAM_NAMES(c) == <<c.teams.home.name, c.teams.away.name>>

\* teamName.trim().toLowerCase() compared with each n.toLowerCase()
isSuperbowlTeamName(c, teamName) ==
  LET t == toLowerCase(trim(teamName))
  IN \E k \in 1..Len(SUPERBOWL_TEAM_NAMES(c)) :
       toLowerCase(SUPERBOWL_TEAM_NAMES(c)[k]) = t

\* name.replace(/\s+/g, " "): every run of white space becomes one space
RECURSIVE CollapseWhiteSpace(_)
CollapseWhiteSpace(s) ==
  IF s = <<>> THEN <<>>
  ELSE IF Head(s) \in WhiteSpace
    THEN <<" ">> \o CollapseWhiteSpace(trimStart(s))
    ELSE <<Head(s)>> \o CollapseWhiteSpace(Tail(s))

normalizeTeamName(name) == trim(CollapseWhiteSpace(name))

sameTeamName(a, b) ==
  toLowerCase(normalizeTeamName(a)) = toLowerCase(normalizeTeamName(b))

(***************************************************************************)
(* src/utils/formatMatchup.ts and src/utils/formatSuperbowl.ts             *)
(***************************************************************************)
\* an optional property is <<>> when absent and <<v>> when given
Options ==
  [useAbbreviations : {<<>>, <<TRUE>>, <<FALSE>>},
   separator : {<<>>, <<<<>>>>, <<<<" ","@"," ">>>>, <<<<"-">>>>}]

DefaultSeparator == <<" ","v","s"," ">>

\* variant of formatSuperbowlMatchup: away team on the left
formatSuperbowlMatchup_Flipped(c, opts) ==
  LET useAbbreviations ==
        IF opts.useAbbreviations = <<>> THEN FALSE ELSE opts.useAbbreviations[1]
      separator ==
        IF opts.separator = <<>> THEN <<" ","v","s"," ">> ELSE opts.separator[1]
      left == IF useAbbreviations THEN c.teams.away.abbreviation
                                  ELSE c.teams.away.name
      right == IF useAbbreviations THEN c.teams.home.abbreviation
                                   ELSE c.teams.home.name
  IN left \o separator \o right

formatSuperbowlMatchup(c, opts) ==
  LET useAbbreviations ==
        IF opts.useAbbreviations = <<>> THEN FALSE ELSE opts.useAbbreviations[1]
      separator ==
        IF opts.separator = <<>> THEN DefaultSeparator ELSE opts.separator[1]
      left == IF useAbbreviations THEN c.teams.home.abbreviation
                                  ELSE c.teams.home.name
      right == IF useAbbreviations THEN c.teams.away.abbreviation
                                   ELSE c.teams.away.name
  IN left \o separator \o right

formatSuperbowlEventLabel(c) == c.label \o <<" ">> \o c.roman

formatSuperbowlTeamsLine(c) ==
  c.teams.away.name \o <<" ","v","s"," ">> \o c.teams.home.name

(***************************************************************************)
(* Consumers of the configuration.  The readers are pure: what a call      *)
(* returns depends on the configuration and its argument only, so a        *)
(* behaviour follows the module's evaluation and one call.                 *)
(***************************************************************************)
NoCall == [fn |-> "none", arg |-> <<>>, result |-> <<>>]

ToUpperChar(c) ==
  IF \E i \in 1..26 : LowerLetters[i] = c
    THEN UpperLetters[CHOOSE i \in 1..26 : LowerLetters[i] = c]
    ELSE c

Recase(s, how) ==
  CASE how = "lower" -> toLowerCase(s)
    [] how = "upper" -> [i \in 1..Len(s) |-> ToUpperChar(s[i])]
    [] OTHER -> s

Pad(w, n) == [i \in 1..n |-> w]

\* s with n more white-space characters w after each of its spaces
RECURSIVE Widen(_, _, _)
Widen(s, w, n) ==
  IF s = <<>> THEN <<>>
  ELSE IF Head(s) = " " THEN <<" ">> \o Pad(w, n) \o Widen(Tail(s), w, n)
  ELSE <<Head(s)>> \o Widen(Tail(s), w, n)

\* the strings a caller may pass for a team name: a name, re-cased, with up
\* to MaxPad white-space characters before, after and inside it
Candidates(c) ==
  { Pad(w, lead) \o Widen(Recase(base, how), w, gap) \o Pad(w, trail) :
      base \in {c.teams.home.name, c.teams.away.name,
                <<"D","e","n","v","e","r"," ","B","r","o","n","c","o","s">>},
      how \in {"same", "lower", "upper"},
      w \in {" ", "\t"},
      lead \in 0..MaxPad, gap \in 0..MaxPad, trail \in 0..MaxPad }

\* the module src/config/superbowl.ts is evaluated: the literal is built as
\* written, nothing is checked
Load ==
  /\ loaded = "no"
  /\ loaded' = "yes"
  /\ UNCHANGED <<cfg, call, guardVars>>

CallIsSuperbowlTeamName ==
  /\ loaded = "yes" /\ call = NoCall
  /\ \E teamName \in Candidates(cfg) :
       call' = [fn |-> "isSuperbowlTeamName", arg |-> teamName,
                result |-> isSuperbowlTeamName(cfg, teamName)]
  /\ UNCHANGED <<cfg, loaded, guardVars>>

CallFormatMatchup ==
  /\ loaded = "yes" /\ call = NoCall
  /\ \E opts \in Options :
       call' = [fn |-> "formatSuperbowlMatchup", arg |-> opts,
                result |-> formatSuperbowlMatchup(cfg, opts)]
  /\ UNCHANGED <<cfg, loaded, guardVars>>

CallFormatTeamsLine ==
  /\ loaded = "yes" /\ call = NoCall
  /\ call' = [fn |-> "formatSuperbowlTeamsLine", arg |-> <<>>,
              result |-> formatSuperbowlTeamsLine(cfg)]
  /\ UNCHANGED <<cfg, loaded, guardVars>>

CallFormatEventLabel ==
  /\ loaded = "yes" /\ call = NoCall
  /\ call' = [fn |-> "formatSuperbowlEventLabel", arg |-> <<>>,
              result |-> formatSuperbowlEventLabel(cfg)]
  /\ UNCHANGED <<cfg, loaded, guardVars>>

(***************************************************************************)
(* Specifications                                                          *)
(***************************************************************************)
GuardIdle ==
  /\ tree = <<>> /\ rootState = "ok" /\ pc = "off" /\ stack = <<>>
  /\ hits = <<>> /\ found = {} /\ opened = {} /\ listed = {}
  /\ out = <<>> /\ err = <<>> /\ exitCode = -1

CfgIdle == cfg = SUPERBOWL /\ loaded = "no" /\ call = NoCall

\* one run of the guard over a directory tree; a missing ROOT has no
\* entries, and what lies below a ROOT that cannot be listed plays no part
Init ==
  /\ rootState \in {"ok", "missing", "unreadable"}
  /\ \E n \in 0..MaxNodes : tree \in TreesOfSize(n)
  /\ rootState = "missing" => tree = <<>>
  /\ rootState = "unreadable" => Len(tree) <= 1
  /\ pc = "start" /\ stack = <<>>
  /\ hits = <<>> /\ found = {} /\ opened = {} /\ listed = {}
  /\ out = <<>> /\ err = <<>> /\ exitCode = -1
  /\ CfgIdle

Next ==
  \/ Start
  \/ SkipIgnored
  \/ EnterDirectory
  \/ ScanFile
  \/ SkipOther
  \/ Return
  \/ Report

Spec == Init /\ [][Next]_vars

\* a process that loads the configuration and calls its readers
InitCfg ==
  /\ cfg \in Configs
  /\ loaded = "no"
  /\ call = NoCall
  /\ GuardIdle

NextCfg ==
  \/ Load
  \/ CallIsSuperbowlTeamName
  \/ CallFormatMatchup
  \/ CallFormatTeamsLine
  \/ CallFormatEventLabel

SpecCfg == InitCfg /\ [][NextCfg]_vars

(***************************************************************************)
(* Vocabulary of the properties of the guard                               *)
(***************************************************************************)
\* the run ended by an exception nobody caught
Aborted == \E j \in 1..Len(err) : err[j].kind = "uncaught"

\* the hit lines written to standard error, in order
HitLines ==
  LET hs == SelectSeq(err, LAMBDA l : l.kind = "hit")
  IN [j \in 1..Len(hs) |-> hs[j].text]

\* the success confirmation, and nothing else, is on standard output
Succeeded == out = <<[kind |-> "success", text |-> <<>>]>>

\* some component of the path of entry i is a name of the ignore set
InIgnoredPath(t, i) ==
  \/ EntryOf(t, i).name \in IGNORE
  \/ \E a \in Ancestors(t, i) \ {0} : EntryOf(t, a).name \in IGNORE

\* entry i is listed by a traversal from ROOT that nothing interrupts
Traversed(t, i) ==
  /\ rootState = "ok"
  /\ \A a \in Ancestors(t, i) \ {0} : EntryOf(t, a).name \notin IGNORE

\* file i passes the ignore-name, self-exclusion and text-extension filters
Qualifying(t, i) ==
  /\ Traversed(t, i)
  /\ EntryOf(t, i).kind = "file"
  /\ EntryOf(t, i).name \notin IGNORE
  /\ ~startsWith(RelPath(t, i), SELF_PREFIX)
  /\ isText(EntryOf(t, i).name)

\* the traversal meets a directory it cannot list or a qualifying file it
\* cannot read
ReadFailure(t) ==
  \/ rootState = "unreadable"
  \/ \E i \in 1..Len(t) :
       /\ Traversed(t, i)
       /\ EntryOf(t, i).name \notin IGNORE
       /\ ~EntryOf(t, i).readable
       /\ EntryOf(t, i).kind = "dir" \/ Qualifying(t, i)

LinesOf(t, i) == SplitLines(ReplaceCRLF(EntryOf(t, i).content))

\* the (file, line) pairs a complete scan has to report
ExpectedPairs(t) ==
  UNION { { <<i, k>> : k \in { n \in 1..Len(LinesOf(t, i)) :
                                 BadPatternTest(LinesOf(t, i)[n]) } } :
            i \in { f \in 1..Len(t) : Qualifying(t, f) } }

\* path:line:text of a pair
ExpectedHit(t, pr) ==
  RelPath(t, pr[1]) \o <<":">> \o Decimal(pr[2]) \o <<":">>
    \o trim(LinesOf(t, pr[1])[pr[2]])

Occurs(line, lit, p) ==
  p + Len(lit) - 1 <= Len(line) /\ SubSeq(line, p, p + Len(lit) - 1) = lit

Contains(line, lit) == \E p \in 1..Len(line) : Occurs(line, lit, p)

\* the occurrence of lit at p is glued to a letter, digit or underscore
InsideWord(line, lit, p) ==
  \/ p > 1 /\ line[p - 1] \in WordChars
  \/ p + Len(lit) <= Len(line) /\ line[p + Len(lit)] \in WordChars

Nicknames == {<<"C","h","i","e","f","s">>, <<"4","9","e","r","s">>}

OtherLegacy ==
  { <<"K","a","n","s","a","s"," ","C","i","t","y"," ","C","h","i","e","f","s">>,
    <<"S","a","n"," ","F","r","a","n","c","i","s","c","o"," ","4","9","e","r","s">>,
    <<"s","u","p","e","r","b","o","w","l","T","e","a","m","s">> }

\* the line holds a legacy nickname, only inside longer words, and no other
\* legacy string
NicknameOnlyInsideWords(line) ==
  /\ \E n \in Nicknames : Contains(line, n)
  /\ \A n \in Nicknames : \A p \in 1..Len(line) :
       Occurs(line, n, p) => InsideWord(line, n, p)
  /\ \A o \in OtherLegacy : ~Contains(line, o)

TraversalComplete == pc = "report" \/ (pc = "exit" /\ ~Aborted)

(***************************************************************************)
(* Properties of the guard (specification Spec)                            *)
(***************************************************************************)
\* C1, as stated (over the trees whose directories can all be listed):
\* every run ends with all qualifying files visited and in one of two
\* outcomes: hits recorded, all of them on standard error, exit code 1 and
\* no success line; or no hit, the success line and exit code 0.
C1_TwoOutcomes ==
  ( /\ pc = "exit"
    /\ rootState = "ok"
    /\ \A d \in 1..Len(tree) :
         EntryOf(tree, d).kind = "dir" => EntryOf(tree, d).readable ) =>
    /\ \A i \in 1..Len(tree) : Qualifying(tree, i) => i \in opened
    /\ IF hits # <<>>
         THEN HitLines = hits /\ exitCode = 1 /\ out = <<>>
         ELSE Succeeded /\ exitCode = 0

\* C1, amended: nothing is reported before the traversal is over; a
\* traversal that meets no read failure visits every qualifying file and
\* ends in one of the two outcomes; a traversal that meets a directory it
\* cannot list or a qualifying file it cannot read aborts with exit code 1,
\* emitting neither the recorded hits nor the success line.
C1_OutcomesOrAbort ==
  /\ pc # "exit" => (out = <<>> /\ err = <<>> /\ exitCode = -1)
  /\ (pc = "exit" /\ ~ReadFailure(tree)) =>
       /\ \A i \in 1..Len(tree) : Qualifying(tree, i) => i \in opened
       /\ IF hits # <<>>
            THEN HitLines = hits /\ exitCode = 1 /\ out = <<>>
            ELSE Succeeded /\ exitCode = 0 /\ err = <<>>
  /\ (pc = "exit" /\ ReadFailure(tree)) =>
       Aborted /\ exitCode = 1 /\ out = <<>> /\ HitLines = <<>>

\* C1, witness: a run reported hits of two files, found before and after
\* one another, in one go
C1_Witness ==
  /\ pc = "exit" /\ ~Aborted /\ exitCode = 1
  /\ Cardinality({pr[1] : pr \in found}) >= 2
  /\ HitLines = hits

\* C2: once the traversal is complete, hits holds exactly one entry
\* path:line:trimmed text for each (qualifying file, matching line) and
\* nothing else; a line that holds a nickname only inside longer words (and
\* no other legacy string) gives no hit, a line matched several times gives
\* one hit, and no file under the guard's own prefix gives a hit.
C2_HitsExact ==
  TraversalComplete =>
    LET expected == ExpectedPairs(tree)
    IN /\ found = expected
       /\ Len(hits) = Cardinality(expected)
       /\ \A pr \in expected :
            Cardinality({j \in 1..Len(hits) : hits[j] = ExpectedHit(tree, pr)}) = 1
       /\ \A pr \in found :
            /\ ~NicknameOnlyInsideWords(LinesOf(tree, pr[1])[pr[2]])
            /\ ~startsWith(RelPath(tree, pr[1]), SELF_PREFIX)

\* C2, witness: a complete traversal that read a file with nicknames inside
\* longer words, a file with a line matched three times, and skipped the
\* guard's own source
C2_Witness ==
  /\ pc = "exit" /\ ~Aborted
  /\ \E i \in opened : EntryOf(tree, i).content = ContentInWord
  /\ \E i \in opened : EntryOf(tree, i).content = ContentMulti
  /\ Len(hits) = 2

\* C3, as stated (over the trees in which everything can be read): the
\* Node guard and the rg guard report the same (file, line) findings and
\* end with the same exit code.
C3_GuardsAgree ==
  ( /\ pc = "exit"
    /\ rootState = "ok"
    /\ \A i \in 1..Len(tree) : EntryOf(tree, i).readable ) =>
    (found = RgFindings(tree) /\ exitCode = ShExitCode(tree))

C6_IgnoredSkipped ==
  \A i \in 1..Len(tree) :
    InIgnoredPath(tree, i) =>
      /\ i \notin opened
      /\ i \notin listed
      /\ \A pr \in found : pr[1] # i
      /\ \A j \in 1..Len(hits) :
           /\ ~startsWith(hits[j], RelPath(tree, i) \o <<":">>)
           /\ ~startsWith(hits[j], RelPath(tree, i) \o <<"/">>)

\* C6, witness: a complete run over a tree with a text file full of legacy
\* strings two levels down, below an ignored directory, ended without hits
C6_Witness ==
  /\ pc = "exit" /\ Succeeded
  /\ \E i \in 1..Len(tree) :
       /\ EntryOf(tree, i).kind = "file"
       /\ EntryOf(tree, i).content = ContentHits
       /\ isText(EntryOf(tree, i).name)
       /\ EntryOf(tree, i).name \notin IGNORE
       /\ tree[i].parent # 0
       /\ EntryOf(tree, tree[i].parent).name \in IGNORE
       /\ tree[tree[i].parent].parent # 0

\* the name ends, case-insensitively, with an entry of the text allowlist
endsWith(s, e) == Len(e) <= Len(s) /\ SubSeq(s, Len(s) - Len(e) + 1, Len(s)) = e

NamedByAllowlist(name) ==
  \E e \in TEXT_EXTENSIONS : endsWith(toLowerCase(name), e)

\* C7, as stated (for the files that pass the ignore and self-exclusion
\* filters): after a complete traversal a file has been read if and only if
\* its name carries an allowlist entry or no extension; in particular a
\* file named by any allowlist entry, .env.example included, has been read.
C7_AllowlistScanned ==
  TraversalComplete =>
    \A i \in 1..Len(tree) :
      ( /\ Traversed(tree, i)
        /\ EntryOf(tree, i).kind = "file"
        /\ EntryOf(tree, i).name \notin IGNORE
        /\ ~startsWith(RelPath(tree, i), SELF_PREFIX) ) =>
          ( i \in opened <=>
              (NamedByAllowlist(EntryOf(tree, i).name)
                 \/ extname(EntryOf(tree, i).name) = <<>>) )

(***************************************************************************)
(* Properties of the configuration and its readers (specification SpecCfg) *)
(***************************************************************************)
\* C8, as stated (for the configuration as shipped): isSuperbowlTeamName of a
\* candidate is true exactly when sameTeamName(candidate, t) holds for the
\* home or the away team's name t.
C8_SameAsSameTeamName ==
  (call.fn = "isSuperbowlTeamName" /\ cfg = SUPERBOWL) =>
    call.result = ( \/ sameTeamName(call.arg, cfg.teams.home.name)
                    \/ sameTeamName(call.arg, cfg.teams.away.name) )

TeamsDistinct(c) ==
  /\ c.teams.home.name # c.teams.away.name
  /\ c.teams.home.abbreviation # c.teams.away.abbreviation

RequiredNonEmpty(c) ==
  /\ c.teams.home.name # <<>> /\ c.teams.away.name # <<>>
  /\ c.teams.home.abbreviation # <<>> /\ c.teams.away.abbreviation # <<>>

Formatters ==
  {"formatSuperbowlMatchup", "formatSuperbowlTeamsLine", "formatSuperbowlEventLabel"}

C10_TeamOrder ==
  /\ call.fn = "formatSuperbowlMatchup" =>
       LET abbr == call.arg.useAbbreviations = <<TRUE>>
           sep == IF call.arg.separator = <<>> THEN <<" ","v","s"," ">>
                                               ELSE call.arg.separator[1]
           h == IF abbr THEN cfg.teams.home.abbreviation ELSE cfg.teams.home.name
           a == IF abbr THEN cfg.teams.away.abbreviation ELSE cfg.teams.away.name
       IN /\ call.result = h \o sep \o a
          /\ startsWith(call.result, h)
          /\ endsWith(call.result, a)
  /\ call.fn = "formatSuperbowlTeamsLine" =>
       /\ call.result = cfg.teams.away.name \o <<" ","v","s"," ">> \o cfg.teams.home.name
       /\ call.result =
            formatSuperbowlMatchup(
              [cfg EXCEPT !.teams = [home |-> cfg.teams.away, away |-> cfg.teams.home]],
              [useAbbreviations |-> <<>>, separator |-> <<>>])
  /\ (loaded = "yes" /\ call = NoCall) =>
       (ENABLED CallFormatMatchup /\ ENABLED CallFormatTeamsLine)

\* C10, witness: the matchup was asked with abbreviations and an empty
\* separator of a configuration whose home abbreviation is empty
C10_Witness ==
  /\ call.fn = "formatSuperbowlMatchup"
  /\ call.arg.useAbbreviations = <<TRUE>>
  /\ call.arg.separator = <<<<>>>>
  /\ cfg.teams.home.abbreviation = <<>>
  /\ call.result = cfg.teams.away.abbreviation

====
